---- MODULE Spec2Model ----
(***************************************************************************)
(* Model of the user authentication service                                *)
(* (0x03-user_authentication_service: user.py, db.py, auth.py).            *)
(*                                                                         *)
(* The users table is a set of rows.  Python values are tagged records so  *)
(* that values of different Python types are comparable and unequal:       *)
(* None, str, int, bool and the bcrypt hash bytes.                         *)
(***************************************************************************)
EXTENDS Integers, Sequences, FiniteSets, TLC

VARIABLES users, uuids, salts, last, hist, pc, local

vars == <<users, uuids, salts, last, hist, pc, local>>

(***************************************************************************)
(* Bounds of the model.                                                    *)
(***************************************************************************)
\* MaxUsers: rows in the table.  MaxRandom: random values (uuid4, gensalt)
\* drawn in a run.
MaxUsers == 2
MaxRandom == 4
\* MaxStoreUsers, MaxStoreRandom: the same in a run of SpecStore, where the
\* DB methods are called directly as well.
MaxStoreUsers == 1
MaxStoreRandom == 1

(***************************************************************************)
(* Python values.                                                          *)
(***************************************************************************)
None == [none |-> TRUE]
str(s) == [str |-> s]
int(n) == [int |-> n]
bool(b) == [bool |-> b]

\* Exceptions: NoExc is a normal return.
NoExc == "no exception"
NoResultFound == "NoResultFound"
InvalidRequestError == "InvalidRequestError"
ValueError == "ValueError"
IntegrityError == "IntegrityError"

Return(v) == [ret |-> v, raised |-> NoExc]
Raise(e) == [ret |-> None, raised |-> e]

(***************************************************************************)
(* bcrypt.  A hash embeds its salt; the digest is determined by the salt   *)
(* and the password (bcrypt is taken to be collision free on the           *)
(* passwords of the model).  checkpw re-hashes the candidate with the salt *)
(* embedded in the stored hash and compares.                               *)
(***************************************************************************)
gensalt(n) == n + 1

hashpw(password, salt) == [salt |-> salt, digest |-> <<salt, password.str>>]

\* Mutant of checkpw: only the salts are compared.
checkpw_salt_only(password, hashed_password) ==
    hashpw(password, hashed_password.salt).salt = hashed_password.salt

checkpw(password, hashed_password) ==
    hashpw(password, hashed_password.salt) = hashed_password

\* auth.py _hash_password: hash with a freshly generated salt; n salts have
\* been drawn so far.
_hash_password(password, n) == hashpw(password, gensalt(n))

\* auth.py _generate_uuid: str(uuid4()); n uuids have been drawn so far and a
\* new one differs from all of them.
_generate_uuid(n) == str("uuid-" \o ToString(n + 1))

(***************************************************************************)
(* user.py: the columns of User.                                           *)
(***************************************************************************)
UserColumns == {"id", "email", "hashed_password", "session_id", "reset_token"}

User(id, email, hashed_password) ==
    [id |-> id, email |-> email, hashed_password |-> hashed_password,
     session_id |-> None, reset_token |-> None]

\* hasattr(User, key), for the keys of the model: the mapped columns.
hasattr_User(key) == key \in UserColumns

(***************************************************************************)
(* db.py: the store.  us is the set of rows of the users table.            *)
(***************************************************************************)
\* The integer primary key the table assigns to a new row.
NextId(us) ==
    IF us = {} THEN int(1)
    ELSE int(1 + (CHOOSE m \in {u.id.int : u \in us} :
                     \A k \in {u.id.int : u \in us} : k <= m))

\* Query.first(): the matching row of least primary key, None when there is none.
first(rows) ==
    IF rows = {} THEN None
    ELSE CHOOSE u \in rows : \A v \in rows : u.id.int <= v.id.int

\* Mutant of RowMatches: values are compared as Python compares them, so
\* None equals the None of a column.
RowMatchesNoneEqual(u, kwargs) ==
    \A key \in DOMAIN kwargs : u[key] = kwargs[key]

\* tuple_(*fields).in_([tuple(values)]): every column equals its value; a
\* NULL value equals nothing.
RowMatches(u, kwargs) ==
    \A key \in DOMAIN kwargs : kwargs[key] # None /\ u[key] = kwargs[key]

add_user(us, email, hashed_password) ==
    IF email = None \/ hashed_password = None
    THEN [users |-> us, ret |-> None, raised |-> NoExc]
    ELSE LET new_user == User(NextId(us), email, hashed_password)
         IN  [users |-> us \cup {new_user}, ret |-> new_user, raised |-> NoExc]

\* Mutant of find_user_by: a name that is no attribute is skipped, not refused.
find_user_by_lenient(us, kwargs) ==
    LET known == [key \in DOMAIN kwargs \cap UserColumns |-> kwargs[key]]
        result == first({u \in us : RowMatches(u, known)})
    IN  IF result = None THEN Raise(NoResultFound) ELSE Return(result)

find_user_by(us, kwargs) ==
    IF \E key \in DOMAIN kwargs : ~hasattr_User(key)
    THEN Raise(InvalidRequestError)
    ELSE LET result == first({u \in us : RowMatches(u, kwargs)})
         IN  IF result = None THEN Raise(NoResultFound) ELSE Return(result)

\* The row u after UPDATE ... SET kwargs.
UpdatedRow(u, kwargs) ==
    [key \in DOMAIN u |-> IF key \in DOMAIN kwargs THEN kwargs[key] ELSE u[key]]

\* Mutant of update_user: the attributes are written one by one, so those
\* that are columns are written although another is refused.
update_user_one_by_one(us, user_id, kwargs) ==
    LET found == find_user_by(us, [id |-> user_id])
        known == [key \in DOMAIN kwargs \cap UserColumns |-> kwargs[key]]
    IN  IF found.raised # NoExc
        THEN [users |-> us, ret |-> None, raised |-> found.raised]
        ELSE [users |-> {IF u.id = user_id THEN UpdatedRow(u, known) ELSE u :
                            u \in us},
              ret |-> None,
              raised |-> IF \E key \in DOMAIN kwargs : ~hasattr_User(key)
                         THEN ValueError ELSE NoExc]

\* The UPDATE is refused (IntegrityError) when it would give the row the
\* primary key of another row.
update_user(us, user_id, kwargs) ==
    LET found == find_user_by(us, [id |-> user_id])
    IN  IF found.raised # NoExc
        THEN [users |-> us, ret |-> None, raised |-> found.raised]
        ELSE IF \E key \in DOMAIN kwargs : ~hasattr_User(key)
        THEN [users |-> us, ret |-> None, raised |-> ValueError]
        ELSE IF "id" \in DOMAIN kwargs
                /\ \E v \in us : v.id # user_id /\ v.id = kwargs["id"]
        THEN [users |-> us, ret |-> None, raised |-> IntegrityError]
        ELSE [users |-> {IF u.id = user_id THEN UpdatedRow(u, kwargs) ELSE u :
                            u \in us},
              ret |-> None, raised |-> NoExc]

(***************************************************************************)
(* auth.py: the Auth operations, each run from start to end on the world   *)
(* w = [users, uuids, salts].  The result is the world afterwards with the *)
(* returned value or the raised exception, and the DB methods called.      *)
(***************************************************************************)
World == [users |-> users, uuids |-> uuids, salts |-> salts]

\* An operation that ends without writing to the world.
Outcome(w, ret, raised, calls) ==
    [users |-> w.users, uuids |-> w.uuids, salts |-> w.salts,
     ret |-> ret, raised |-> raised, calls |-> calls]

\* Mutant of register_user: the user is added without the lookup by email.
register_user_unchecked(w, email, password) ==
    LET added == add_user(w.users, email, _hash_password(password, w.salts))
    IN  [users |-> added.users, uuids |-> w.uuids, salts |-> w.salts + 1,
         ret |-> added.ret, raised |-> added.raised, calls |-> <<"add_user">>]

register_user(w, email, password) ==
    LET found == find_user_by(w.users, [email |-> email])
    IN  IF found.raised = NoResultFound
        THEN LET added == add_user(w.users, email,
                                   _hash_password(password, w.salts))
             IN  [users |-> added.users, uuids |-> w.uuids,
                  salts |-> w.salts + 1,
                  ret |-> added.ret, raised |-> added.raised,
                  calls |-> <<"find_user_by", "add_user">>]
        ELSE Outcome(w, None, ValueError, <<"find_user_by">>)

valid_login(w, email, password) ==
    LET found == find_user_by(w.users, [email |-> email])
    IN  IF found.raised = NoResultFound
        THEN Outcome(w, bool(FALSE), NoExc, <<"find_user_by">>)
        ELSE Outcome(w, bool(checkpw(password, found.ret.hashed_password)),
                     NoExc, <<"find_user_by">>)

\* Mutant of CreateSessionAttrs: the token is stored in the other column.
CreateSessionAttrsWrongColumn(session_id) == [reset_token |-> session_id]

\* The keyword arguments create_session passes to update_user.
CreateSessionAttrs(session_id) == [session_id |-> session_id]

create_session(w, email) ==
    LET found == find_user_by(w.users, [email |-> email])
    IN  IF found.raised = NoResultFound
        THEN Outcome(w, None, NoExc, <<"find_user_by">>)
        ELSE LET session_id == _generate_uuid(w.uuids)
                 upd == update_user(w.users, found.ret.id,
                                    CreateSessionAttrs(session_id))
             IN  [users |-> upd.users, uuids |-> w.uuids + 1,
                  salts |-> w.salts,
                  ret |-> IF upd.raised = NoExc THEN session_id ELSE None,
                  raised |-> upd.raised,
                  calls |-> <<"find_user_by", "update_user">>]

\* Mutant of get_user_from_session_id: no test for None before the lookup.
get_user_from_session_id_unguarded(w, session_id) ==
    LET found == find_user_by(w.users, [session_id |-> session_id])
    IN  IF found.raised = NoResultFound
        THEN Outcome(w, None, NoExc, <<"find_user_by">>)
        ELSE Outcome(w, found.ret, NoExc, <<"find_user_by">>)

get_user_from_session_id(w, session_id) ==
    IF session_id = None
    THEN Outcome(w, None, NoExc, <<>>)
    ELSE LET found == find_user_by(w.users, [session_id |-> session_id])
         IN  IF found.raised = NoResultFound
             THEN Outcome(w, None, NoExc, <<"find_user_by">>)
             ELSE Outcome(w, found.ret, NoExc, <<"find_user_by">>)

\* Mutant of DestroySessionAttrs: the other column is cleared.
DestroySessionAttrsWrongColumn == [reset_token |-> None]

\* The keyword arguments destroy_session passes to update_user.
DestroySessionAttrs == [session_id |-> None]

destroy_session(w, user_id) ==
    IF user_id = None
    THEN Outcome(w, None, NoExc, <<>>)
    ELSE LET upd == update_user(w.users, user_id, DestroySessionAttrs)
         IN  [users |-> upd.users, uuids |-> w.uuids, salts |-> w.salts,
              ret |-> None, raised |-> upd.raised,
              calls |-> <<"update_user">>]

\* The keyword arguments get_reset_password_token passes to update_user.
ResetTokenAttrs(reset_token) == [reset_token |-> reset_token]

\* Mutant of get_reset_password_token: an unknown email gives None, as in
\* create_session, and not ValueError.
get_reset_password_token_quiet(w, email) ==
    LET found == find_user_by(w.users, [email |-> email])
    IN  IF found.raised = NoResultFound
        THEN Outcome(w, None, NoExc, <<"find_user_by">>)
        ELSE LET reset_token == _generate_uuid(w.uuids)
                 upd == update_user(w.users, found.ret.id,
                                    ResetTokenAttrs(reset_token))
             IN  [users |-> upd.users, uuids |-> w.uuids + 1,
                  salts |-> w.salts,
                  ret |-> IF upd.raised = NoExc THEN reset_token ELSE None,
                  raised |-> upd.raised,
                  calls |-> <<"find_user_by", "update_user">>]

get_reset_password_token(w, email) ==
    LET found == find_user_by(w.users, [email |-> email])
    IN  IF found.raised = NoResultFound
        THEN Outcome(w, None, ValueError, <<"find_user_by">>)
        ELSE LET reset_token == _generate_uuid(w.uuids)
                 upd == update_user(w.users, found.ret.id,
                                    ResetTokenAttrs(reset_token))
             IN  [users |-> upd.users, uuids |-> w.uuids + 1,
                  salts |-> w.salts,
                  ret |-> IF upd.raised = NoExc THEN reset_token ELSE None,
                  raised |-> upd.raised,
                  calls |-> <<"find_user_by", "update_user">>]

\* Mutants of UpdatePasswordAttrs: the hash is not written; the token is
\* not cleared.
UpdatePasswordAttrsKeepHash(new_password_hash) == [reset_token |-> None]

UpdatePasswordAttrsKeepToken(new_password_hash) ==
    [hashed_password |-> new_password_hash]

\* Mutant of UpdatePasswordAttrs: the session is ended as well.
UpdatePasswordAttrsEndSession(new_password_hash) ==
    [hashed_password |-> new_password_hash, reset_token |-> None,
     session_id |-> None]

\* The keyword arguments update_password passes to update_user.
UpdatePasswordAttrs(new_password_hash) ==
    [hashed_password |-> new_password_hash, reset_token |-> None]

update_password(w, reset_token, password) ==
    LET found == find_user_by(w.users, [reset_token |-> reset_token])
    IN  IF found.raised = NoResultFound
        THEN Outcome(w, None, ValueError, <<"find_user_by">>)
        ELSE LET new_password_hash == _hash_password(password, w.salts)
                 upd == update_user(w.users, found.ret.id,
                                    UpdatePasswordAttrs(new_password_hash))
             IN  [users |-> upd.users, uuids |-> w.uuids,
                  salts |-> w.salts + 1,
                  ret |-> None, raised |-> upd.raised,
                  calls |-> <<"find_user_by", "update_user">>]

(***************************************************************************)
(* Inputs of the operations.                                               *)
(***************************************************************************)
Emails == {str("a@b.com"), str("c@d.com")}
Passwords == {str("pw1"), str("pw2")}
\* Tokens a caller may present: none, the empty string and every uuid
\* drawn so far.
Tokens == {None, str("")} \cup {_generate_uuid(n) : n \in 0 .. uuids - 1}
UserIds == {None} \cup {int(i) : i \in 1 .. MaxUsers}

(***************************************************************************)
(* History variables.  last is the operation that ran last, with its       *)
(* arguments and result.  hist records what the properties refer to:       *)
(*   sessions  the tokens create_session returned, with the user's id      *)
(*   ended     the session tokens whose user destroy_session then cleared  *)
(*   resets    the tokens get_reset_password_token returned, with the      *)
(*             email and the number of uuids drawn before (their order)    *)
(*   fresh     the reset tokens returned since update_password last        *)
(*             changed a password                                          *)
(*   updates   the successful update_password calls: token, user id, the   *)
(*             password before and after, and the hash written             *)
(*   plain     per user id, the password set last                          *)
(*   overtaken the processes inside create_session (after the lookup,      *)
(*             before update_user) whose user another create_session has   *)
(*             written since, with the token that one returned             *)
(*   races     the pairs of tokens two such create_session calls returned, *)
(*             in the order of their writes                                *)
(***************************************************************************)
Idle == [op |-> "none", args |-> <<>>, ret |-> None, raised |-> NoExc,
         calls |-> <<>>]

Call(op, args, r) ==
    [op |-> op, args |-> args, ret |-> r.ret, raised |-> r.raised,
     calls |-> r.calls]

NoHist == [sessions |-> {}, ended |-> {}, resets |-> {}, fresh |-> {},
           updates |-> {}, plain |-> {}, overtaken |-> {}, races |-> {}]

\* The row with email e that a lookup by email finds, None when there is none.
ByEmail(us, e) == first({u \in us : u.email = e})

RowById(us, id) == CHOOSE u \in us : u.id = id

PlainOf(h, id) == CHOOSE p \in h.plain : p.id = id

SetPlain(h, id, password) ==
    {p \in h.plain : p.id # id} \cup {[id |-> id, password |-> password]}

\* The world can take the outcome r within the bounds of the model.
InBounds(r) ==
    /\ Cardinality(r.users) <= MaxUsers
    /\ r.uuids + r.salts <= MaxRandom

Commit(r) ==
    /\ InBounds(r)
    /\ users' = r.users
    /\ uuids' = r.uuids
    /\ salts' = r.salts

\* The history after each operation that writes.
HistRegister(h, user, password) ==
    [h EXCEPT !.plain = SetPlain(h, user.id, password)]

HistCreateSession(h, tok, id) ==
    [h EXCEPT !.sessions = @ \cup {[tok |-> tok, id |-> id]}]

HistDestroySession(h, id) ==
    [h EXCEPT !.ended = @ \cup {x.tok : x \in {y \in h.sessions : y.id = id}}]

HistReset(h, tok, email, n) ==
    [h EXCEPT !.resets = @ \cup {[tok |-> tok, email |-> email, n |-> n]},
              !.fresh = @ \cup {tok}]

HistUpdatePassword(h, tok, id, password, hash) ==
    [h EXCEPT !.fresh = {},
              !.updates = @ \cup {[tok |-> tok, id |-> id,
                                   old |-> PlainOf(h, id).password,
                                   new |-> password, hash |-> hash]},
              !.plain = SetPlain(h, id, password)]

(***************************************************************************)
(* The operations as atomic steps: one request at a time.                  *)
(***************************************************************************)
RegisterUser(email, password) ==
    LET r == register_user(World, email, password)
    IN  /\ Commit(r)
        /\ last' = Call("register_user", <<email, password>>, r)
        /\ hist' = IF r.raised = NoExc /\ r.ret # None
                   THEN HistRegister(hist, r.ret, password)
                   ELSE hist
        /\ UNCHANGED <<pc, local>>

ValidLogin(email, password) ==
    LET r == valid_login(World, email, password)
    IN  /\ Commit(r)
        /\ last' = Call("valid_login", <<email, password>>, r)
        /\ UNCHANGED <<hist, pc, local>>

CreateSession(email) ==
    LET r == create_session(World, email)
    IN  /\ Commit(r)
        /\ last' = Call("create_session", <<email>>, r)
        /\ hist' = IF r.ret # None
                   THEN HistCreateSession(hist, r.ret, ByEmail(users, email).id)
                   ELSE hist
        /\ UNCHANGED <<pc, local>>

GetUserFromSessionId(session_id) ==
    LET r == get_user_from_session_id(World, session_id)
    IN  /\ Commit(r)
        /\ last' = Call("get_user_from_session_id", <<session_id>>, r)
        /\ UNCHANGED <<hist, pc, local>>

DestroySession(user_id) ==
    LET r == destroy_session(World, user_id)
    IN  /\ Commit(r)
        /\ last' = Call("destroy_session", <<user_id>>, r)
        /\ hist' = IF r.raised = NoExc /\ user_id # None
                   THEN HistDestroySession(hist, user_id)
                   ELSE hist
        /\ UNCHANGED <<pc, local>>

GetResetPasswordToken(email) ==
    LET r == get_reset_password_token(World, email)
    IN  /\ Commit(r)
        /\ last' = Call("get_reset_password_token", <<email>>, r)
        /\ hist' = IF r.raised = NoExc
                   THEN HistReset(hist, r.ret, email, uuids)
                   ELSE hist
        /\ UNCHANGED <<pc, local>>

UpdatePassword(reset_token, password) ==
    LET r == update_password(World, reset_token, password)
        target == first({u \in users :
                           RowMatches(u, [reset_token |-> reset_token])})
    IN  /\ Commit(r)
        /\ last' = Call("update_password", <<reset_token, password>>, r)
        /\ hist' = IF r.raised = NoExc
                   THEN HistUpdatePassword(hist, reset_token, target.id,
                           password,
                           (CHOOSE u \in r.users :
                               u.id = target.id).hashed_password)
                   ELSE hist
        /\ UNCHANGED <<pc, local>>

\* A direct query of the store: by email, by a name that is no attribute
\* of User, by the hash some row holds, or by the hash and the email of a
\* row together.
Queries ==
    {("email" :> e) : e \in Emails}
    \cup {("no_email" :> e) : e \in Emails}
    \cup {("hashed_password" :> u.hashed_password) : u \in users}
    \cup {("hashed_password" :> u.hashed_password) @@ ("email" :> u.email) :
            u \in users}

FindUserBy(kwargs) ==
    /\ last' = [op |-> "find_user_by", args |-> <<kwargs>>,
                ret |-> find_user_by(users, kwargs).ret,
                raised |-> find_user_by(users, kwargs).raised,
                calls |-> <<"find_user_by">>]
    /\ UNCHANGED <<users, uuids, salts, hist, pc, local>>

(***************************************************************************)
(* The specification: an empty table (DB.__init__ drops and recreates it)  *)
(* and requests served one at a time.                                      *)
(***************************************************************************)
\* The processes that serve requests concurrently (SpecConc), and what
\* local[p] holds while p is in an operation: the operation, its arguments
\* and the id of the user its lookup found.
Procs == {1, 2}

Started(op, args, user_id) == [op |-> op, args |-> args, user_id |-> user_id]

NoLocal == Started("none", <<>>, None)

Init ==
    /\ users = {}
    /\ uuids = 0
    /\ salts = 0
    /\ last = Idle
    /\ hist = NoHist
    /\ pc = [p \in Procs |-> "idle"]
    /\ local = [p \in Procs |-> NoLocal]

Next ==
    \/ \E email \in Emails, password \in Passwords :
          RegisterUser(email, password)
    \/ \E email \in Emails, password \in Passwords :
          ValidLogin(email, password)
    \/ \E email \in Emails : CreateSession(email)
    \/ \E session_id \in Tokens : GetUserFromSessionId(session_id)
    \/ \E user_id \in UserIds : DestroySession(user_id)
    \/ \E email \in Emails : GetResetPasswordToken(email)
    \/ \E reset_token \in Tokens, password \in Passwords :
          UpdatePassword(reset_token, password)
    \/ \E kwargs \in Queries : FindUserBy(kwargs)

Spec == Init /\ [][Next]_vars

(***************************************************************************)
(* Requests served concurrently.  Each process runs one Auth operation at  *)
(* a time; the operations interleave between their calls of DB methods,    *)
(* and each call of a DB method is one step.  pc[p] is "idle" or the DB    *)
(* method p calls next.                                                    *)
(***************************************************************************)
\* register_user, up to the lookup by email.
RegisterUserFind(p, email, password) ==
    /\ pc[p] = "idle"
    /\ LET found == find_user_by(users, [email |-> email])
       IN  IF found.raised = NoResultFound
           THEN /\ pc' = [pc EXCEPT ![p] = "add_user"]
                /\ local' = [local EXCEPT ![p] =
                                Started("register_user", <<email, password>>,
                                        None)]
           ELSE /\ pc' = pc
                /\ local' = [local EXCEPT ![p] = NoLocal]
    /\ UNCHANGED <<users, uuids, salts, last, hist>>

\* register_user, the hashing and add_user.
RegisterUserAdd(p) ==
    /\ pc[p] = "add_user"
    /\ local[p].op = "register_user"
    /\ LET added == add_user(users, local[p].args[1],
                             _hash_password(local[p].args[2], salts))
       IN  /\ Commit([users |-> added.users, uuids |-> uuids,
                      salts |-> salts + 1])
           /\ hist' = IF added.ret # None
                      THEN HistRegister(hist, added.ret, local[p].args[2])
                      ELSE hist
           /\ local' = [local EXCEPT ![p] = NoLocal]
    /\ pc' = [pc EXCEPT ![p] = "idle"]
    /\ UNCHANGED last

\* create_session, get_reset_password_token (lookup by email) and
\* update_password (lookup by reset_token), up to the lookup.  missing is
\* what the operation does when the lookup finds no row.
LookupStep(p, op, args, kwargs, missing) ==
    /\ pc[p] = "idle"
    /\ LET found == find_user_by(users, kwargs)
       IN  IF found.raised = NoResultFound
           THEN /\ pc' = pc
                /\ local' = [local EXCEPT ![p] = NoLocal]
           ELSE /\ pc' = [pc EXCEPT ![p] = "update_user"]
                /\ local' = [local EXCEPT ![p] =
                                Started(op, args, found.ret.id)]
    /\ UNCHANGED <<users, uuids, salts, last, hist>>

CreateSessionFind(p, email) ==
    LookupStep(p, "create_session", <<email>>, [email |-> email], NoExc)

GetResetPasswordTokenFind(p, email) ==
    LookupStep(p, "get_reset_password_token", <<email>>, [email |-> email],
               ValueError)

UpdatePasswordFind(p, reset_token, password) ==
    LookupStep(p, "update_password", <<reset_token, password>>,
               [reset_token |-> reset_token], ValueError)

\* The history after process p, inside create_session, has written tok to
\* user id: the other processes inside create_session for that user are
\* overtaken, and if p was overtaken itself the race is recorded.
HistRace(h, p, tok, id) ==
    LET pending == {q \in Procs \ {p} : /\ pc[q] = "update_user"
                                         /\ local[q].op = "create_session"
                                         /\ local[q].user_id = id}
        mine == {o \in h.overtaken : o.p = p}
    IN  [h EXCEPT !.overtaken = (@ \ mine)
                                   \cup {[p |-> q, tok |-> tok] : q \in pending},
                  !.races = @ \cup {[first |-> o.tok, second |-> tok,
                                     id |-> id] : o \in mine}]

\* create_session, the uuid and update_user.
CreateSessionUpdate(p) ==
    /\ pc[p] = "update_user"
    /\ local[p].op = "create_session"
    /\ LET session_id == _generate_uuid(uuids)
           upd == update_user(users, local[p].user_id,
                              CreateSessionAttrs(session_id))
       IN  /\ Commit([users |-> upd.users, uuids |-> uuids + 1,
                      salts |-> salts])
           /\ hist' = HistRace(HistCreateSession(hist, session_id,
                                                 local[p].user_id),
                               p, session_id, local[p].user_id)
           /\ local' = [local EXCEPT ![p] = NoLocal]
    /\ pc' = [pc EXCEPT ![p] = "idle"]
    /\ UNCHANGED last

\* get_reset_password_token, the uuid and update_user.
GetResetPasswordTokenUpdate(p) ==
    /\ pc[p] = "update_user"
    /\ local[p].op = "get_reset_password_token"
    /\ LET reset_token == _generate_uuid(uuids)
           upd == update_user(users, local[p].user_id,
                              ResetTokenAttrs(reset_token))
       IN  /\ Commit([users |-> upd.users, uuids |-> uuids + 1,
                      salts |-> salts])
           /\ hist' = HistReset(hist, reset_token, local[p].args[1], uuids)
           /\ local' = [local EXCEPT ![p] = NoLocal]
    /\ pc' = [pc EXCEPT ![p] = "idle"]
    /\ UNCHANGED last

\* update_password, the hashing and update_user.
UpdatePasswordUpdate(p) ==
    /\ pc[p] = "update_user"
    /\ local[p].op = "update_password"
    /\ LET new_password_hash == _hash_password(local[p].args[2], salts)
           upd == update_user(users, local[p].user_id,
                              UpdatePasswordAttrs(new_password_hash))
       IN  /\ Commit([users |-> upd.users, uuids |-> uuids,
                      salts |-> salts + 1])
           /\ hist' = HistUpdatePassword(hist, local[p].args[1],
                         local[p].user_id, local[p].args[2],
                         RowById(upd.users, local[p].user_id).hashed_password)
           /\ local' = [local EXCEPT ![p] = NoLocal]
    /\ pc' = [pc EXCEPT ![p] = "idle"]
    /\ UNCHANGED last

\* destroy_session: one call of update_user.
DestroySessionCall(p, user_id) ==
    /\ pc[p] = "idle"
    /\ LET r == destroy_session(World, user_id)
       IN  /\ Commit(r)
           /\ hist' = IF r.raised = NoExc /\ user_id # None
                      THEN HistDestroySession(hist, user_id)
                      ELSE hist
           /\ local' = [local EXCEPT ![p] = NoLocal]
    /\ UNCHANGED <<pc, last>>

NextConc ==
    \E p \in Procs :
       \/ \E email \in Emails, password \in Passwords :
             RegisterUserFind(p, email, password)
       \/ RegisterUserAdd(p)
       \/ \E email \in Emails : CreateSessionFind(p, email)
       \/ CreateSessionUpdate(p)
       \/ \E email \in Emails : GetResetPasswordTokenFind(p, email)
       \/ GetResetPasswordTokenUpdate(p)
       \/ \E reset_token \in Tokens, password \in Passwords :
             UpdatePasswordFind(p, reset_token, password)
       \/ UpdatePasswordUpdate(p)
       \/ \E user_id \in UserIds : DestroySessionCall(p, user_id)

SpecConc == Init /\ [][NextConc]_vars

(***************************************************************************)
(* Helpers of the properties.                                              *)
(***************************************************************************)
\* The world an operation leaves.
WorldOf(r) == [users |-> r.users, uuids |-> r.uuids, salts |-> r.salts]

IdOf(user) == IF user = None THEN None ELSE user.id

\* What get_user_from_session_id returns in world w.
SessionUser(w, session_id) == get_user_from_session_id(w, session_id).ret

Hashes(us) == {<<u.id, u.hashed_password>> : u \in us}

(***************************************************************************)
(* C1  Session round trip.  In every reachable state create_session(e)     *)
(* for an email without a user returns None and leaves the table as it is; *)
(* for the email of a user u it returns a token, u's session_id is that    *)
(* token afterwards, and get_user_from_session_id(token) run next returns  *)
(* u.  The same holds of the create_session that ran last.                 *)
(***************************************************************************)
C1_SessionRoundTrip ==
    /\ \A email \in Emails :
          LET u == ByEmail(users, email)
              r == create_session(World, email)
          IN  IF u = None
              THEN r.ret = None /\ r.raised = NoExc /\ r.users = users
              ELSE /\ r.ret # None
                   /\ r.raised = NoExc
                   /\ RowById(r.users, u.id).session_id = r.ret
                   /\ IdOf(SessionUser(WorldOf(r), r.ret)) = u.id
    /\ last.op = "create_session" =>
          IF last.ret = None
          THEN ByEmail(users, last.args[1]) = None
          ELSE /\ ByEmail(users, last.args[1]) # None
               /\ ByEmail(users, last.args[1]).session_id = last.ret
               /\ SessionUser(World, last.ret) = ByEmail(users, last.args[1])

\* create_session has just returned a token to the second of two users.
C1_Witness ==
    /\ last.op = "create_session"
    /\ last.ret # None
    /\ Cardinality(users) = 2
    /\ IdOf(SessionUser(World, last.ret)) = int(2)

(***************************************************************************)
(* C2  Session teardown.  A token that create_session returned for user u  *)
(* resolves to nobody once destroy_session(u.id) has run, whatever ran     *)
(* since: get_user_from_session_id of it returns None in every later       *)
(* state, and did so if it was the operation that ran last.                *)
(***************************************************************************)
C2_SessionTeardown ==
    /\ \A t \in hist.ended : SessionUser(World, t) = None
    /\ (last.op = "get_user_from_session_id" /\ last.args[1] \in hist.ended)
          => last.ret = None

\* A torn-down token was just looked up while its user holds a newer session.
C2_Witness ==
    /\ last.op = "get_user_from_session_id"
    /\ last.args[1] \in hist.ended
    /\ \E s \in hist.sessions :
          /\ s.tok \notin hist.ended
          /\ \E t \in hist.sessions : t.tok \in hist.ended /\ t.id = s.id
                                      /\ t.tok = last.args[1]
          /\ RowById(users, s.id).session_id = s.tok

(***************************************************************************)
(* C3  Password reset changes the login credential.                        *)
(***************************************************************************)
\* Reset r is the one issued last for its email.
LatestReset(r) ==
    \A x \in hist.resets : x.email = r.email => x.n <= r.n

\* The step is update_password(r.tok, password) for a new password, and no
\* update_password changed a password since r.tok was issued.
ResetStep(r, password) ==
    /\ last'.op = "update_password"
    /\ last'.args = <<r.tok, password>>
    /\ r.tok \in hist.fresh
    /\ ByEmail(users, r.email) # None
    /\ password # PlainOf(hist, ByEmail(users, r.email).id).password

\* The step succeeded; the new password logs in and the old one does not.
ResetDone(r, password) ==
    /\ last'.raised = NoExc
    /\ valid_login(World', r.email, password).ret = bool(TRUE)
    /\ valid_login(World', r.email,
                   PlainOf(hist, ByEmail(users, r.email).id).password).ret
          = bool(FALSE)

\* C3 as stated: t = issueResetToken(e), then updatePassword(t, newPw) with
\* no other updatePassword in between, succeeds and changes the credential.
C3_Original ==
    [][\A r \in hist.resets, password \in Passwords :
          ResetStep(r, password) => ResetDone(r, password)]_vars

\* C3 amended: the same, provided also that no other token was issued for
\* the email in between.
C3_ResetChangesCredential ==
    [][\A r \in hist.resets, password \in Passwords :
          (ResetStep(r, password) /\ LatestReset(r))
             => ResetDone(r, password)]_vars

\* update_password has just replaced a password by a different one; the new
\* one logs in.
C3_Witness ==
    /\ last.op = "update_password"
    /\ last.raised = NoExc
    /\ \E x \in hist.updates, r \in hist.resets :
          /\ x.tok = last.args[1]
          /\ r.tok = x.tok
          /\ x.old # x.new
          /\ x.new = last.args[2]
          /\ valid_login(World, r.email, x.new).ret = bool(TRUE)
          /\ valid_login(World, r.email, x.old).ret = bool(FALSE)

(***************************************************************************)
(* C4  Reset tokens are single use.  Once update_password has succeeded    *)
(* with token t, update_password(t, any password) raises ValueError and    *)
(* leaves every hashed_password as it is, in every later state; no token   *)
(* changed a password twice.                                               *)
(***************************************************************************)
C4_ResetTokenSingleUse ==
    /\ \A x \in hist.updates, password \in Passwords :
          LET r == update_password(World, x.tok, password)
          IN  r.raised = ValueError /\ Hashes(r.users) = Hashes(users)
    /\ \A x, y \in hist.updates : x.tok = y.tok => x = y

\* A used token was presented again, with the other password, and refused.
C4_Witness ==
    /\ last.op = "update_password"
    /\ last.raised = ValueError
    /\ \E x \in hist.updates :
          x.tok = last.args[1] /\ x.new # last.args[2]

(***************************************************************************)
(* C5  Duplicate registration is rejected without side effects.  In every  *)
(* reachable state register_user with the email of a user, and any         *)
(* password, raises ValueError, adds no row and changes no field of any    *)
(* row; after the register_user that ran last raised, the table holds one  *)
(* row for the email, with the hash of the password set before.            *)
(***************************************************************************)
C5_DuplicateRegistration ==
    /\ \A u \in users, password \in Passwords :
          LET r == register_user(World, u.email, password)
          IN  r.raised = ValueError /\ r.ret = None /\ r.users = users
    /\ (last.op = "register_user" /\ last.raised = ValueError) =>
          /\ Cardinality({u \in users : u.email = last.args[1]}) = 1
          /\ LET u == ByEmail(users, last.args[1])
             IN  checkpw(PlainOf(hist, u.id).password, u.hashed_password)

\* A second registration of an email, with another password, was refused.
C5_Witness ==
    /\ last.op = "register_user"
    /\ last.raised = ValueError
    /\ \E u \in users :
          /\ u.email = last.args[1]
          /\ PlainOf(hist, u.id).password # last.args[2]
          /\ ~checkpw(last.args[2], u.hashed_password)

(***************************************************************************)
(* C6  valid_login never raises and tracks the current password.  In       *)
(* every reachable state valid_login(e, p) raises nothing and changes      *)
(* nothing; it returns False when no user has email e, and otherwise True  *)
(* exactly when p is the password set last for that user by register_user  *)
(* or a successful update_password.  The stored hash is the hash of that   *)
(* password under one of the salts drawn, and checkpw of a hash of p       *)
(* accepts q exactly when q = p.                                           *)
(***************************************************************************)
C6_ValidLoginTracksPassword ==
    /\ \A email \in Emails, password \in Passwords :
          LET r == valid_login(World, email, password)
              u == ByEmail(users, email)
          IN  /\ r.raised = NoExc
              /\ WorldOf(r) = World
              /\ r.ret = IF u = None THEN bool(FALSE)
                         ELSE bool(password = PlainOf(hist, u.id).password)
    /\ \A u \in users :
          \E n \in 0 .. salts - 1 :
             u.hashed_password = _hash_password(PlainOf(hist, u.id).password, n)
    /\ \A p \in Passwords, q \in Passwords, n \in 0 .. salts :
          checkpw(q, _hash_password(p, n)) <=> (q = p)
    /\ last.op = "valid_login" =>
          /\ last.raised = NoExc
          /\ LET u == ByEmail(users, last.args[1])
             IN  last.ret = IF u = None THEN bool(FALSE)
                            ELSE bool(last.args[2] = PlainOf(hist, u.id).password)

\* A login with the password set by update_password has just succeeded.
C6_Witness ==
    /\ last.op = "valid_login"
    /\ last.ret = bool(TRUE)
    /\ \E x \in hist.updates :
          /\ x.id = ByEmail(users, last.args[1]).id
          /\ x.new = last.args[2]
          /\ x.old # x.new

(***************************************************************************)
(* C7  Failures of the reset flow are typed and leave the table as it is.  *)
(* In every reachable state get_reset_password_token for an email without  *)
(* a user raises ValueError, and update_password with a token that is no   *)
(* user's reset_token raises ValueError; neither adds a row nor changes a  *)
(* field of a row.                                                         *)
(***************************************************************************)
C7_ResetFailuresTyped ==
    /\ \A email \in Emails :
          ByEmail(users, email) = None =>
             LET r == get_reset_password_token(World, email)
             IN  r.raised = ValueError /\ r.users = users
    /\ \A t \in Tokens \cup {_generate_uuid(uuids)}, password \in Passwords :
          (\A u \in users : u.reset_token # t) =>
             LET r == update_password(World, t, password)
             IN  r.raised = ValueError /\ r.users = users
    /\ (last.op = "get_reset_password_token"
          /\ ByEmail(users, last.args[1]) = None) => last.raised = ValueError
    /\ (last.op = "update_password" /\ last.raised = NoExc) =>
          last.args[1] \in {x.tok : x \in hist.resets}

\* update_password was refused for a token while another reset is pending.
C7_Witness ==
    /\ last.op = "update_password"
    /\ last.raised = ValueError
    /\ last.args[1] # None
    /\ \E u \in users : u.reset_token \notin {None, last.args[1]}

(***************************************************************************)
(* C8  The fields find_user_by accepts.                                    *)
(***************************************************************************)
\* The enumeration of the specification.
SpecFields == {"id", "email", "session_id", "reset_token"}

C9_PasswordAndTokenAtomic ==
    \A x \in hist.updates :
       /\ \A u \in users :
             ~(u.hashed_password = x.hash /\ u.reset_token = x.tok)
       /\ find_user_by(users, [reset_token |-> x.tok]).raised = NoResultFound

\* update_password(t, pw) has written while a second update_password with
\* the same token, whose lookup found the user before, is about to write.
C9_Witness ==
    \E p \in Procs, x \in hist.updates :
       /\ pc[p] = "update_user"
       /\ local[p].op = "update_password"
       /\ local[p].args[1] = x.tok
       /\ local[p].user_id = x.id
       /\ RowById(users, x.id).hashed_password = x.hash

(***************************************************************************)
(* C10  get_user_from_session_id with no token.                            *)
(***************************************************************************)
\* C10 as stated: for None and for the empty string it returns None without
\* calling the store.
C10_Original ==
    (last.op = "get_user_from_session_id" /\ last.args[1] \in {None, str("")})
       => (last.ret = None /\ last.calls = <<>>)

\* C10 amended: for None it returns None without calling the store; for the
\* empty string it returns None after one find_user_by, which matches no
\* row.  Neither returns a user, whatever rows have a NULL session_id.
C10_NoTokenNoUser ==
    /\ LET r == get_user_from_session_id(World, None)
       IN  r.ret = None /\ r.calls = <<>> /\ r.raised = NoExc
    /\ LET r == get_user_from_session_id(World, str(""))
       IN  r.ret = None /\ r.calls = <<"find_user_by">> /\ r.raised = NoExc
    /\ (last.op = "get_user_from_session_id" /\ last.args[1] \in {None, str("")})
          => /\ last.ret = None
             /\ last.calls = IF last.args[1] = None THEN <<>>
                             ELSE <<"find_user_by">>

\* The empty string was just presented while a user has no session and
\* another has one: the store was asked and no user came back.
C10_Witness ==
    /\ last.op = "get_user_from_session_id"
    /\ last.args[1] = str("")
    /\ last.ret = None
    /\ last.calls = <<"find_user_by">>
    /\ \E u \in users : u.session_id = None
    /\ \E u \in users : u.session_id # None

(***************************************************************************)
(* C11  destroy_session is a null-safe, idempotent reset of the session.   *)
(* In every reachable state destroy_session(None) calls no DB method and   *)
(* changes nothing; for the id of a user, destroy_session(id) raises       *)
(* nothing and leaves that user's session_id None, whether or not a        *)
(* session was active, and running it a second time leaves the table that  *)
(* the first run left.  The same holds of the destroy_session that ran     *)
(* last.                                                                   *)
(***************************************************************************)
C11_DestroySessionIdempotent ==
    /\ LET r == destroy_session(World, None)
       IN  WorldOf(r) = World /\ r.raised = NoExc /\ r.calls = <<>>
    /\ \A u \in users :
          LET once == destroy_session(World, u.id)
              twice == destroy_session(WorldOf(once), u.id)
          IN  /\ once.raised = NoExc
              /\ RowById(once.users, u.id).session_id = None
              /\ twice.raised = NoExc
              /\ WorldOf(twice) = WorldOf(once)
    /\ (last.op = "destroy_session" /\ last.args[1] = None) =>
          (last.raised = NoExc /\ last.calls = <<>>)
    /\ (last.op = "destroy_session"
          /\ \E u \in users : u.id = last.args[1]) =>
          /\ last.raised = NoExc
          /\ RowById(users, last.args[1]).session_id = None

\* destroy_session has just run for a user whose session it ended and who
\* has a reset pending.
C11_Witness ==
    /\ last.op = "destroy_session"
    /\ last.raised = NoExc
    /\ \E s \in hist.sessions : s.id = last.args[1] /\ s.tok \in hist.ended
    /\ \E u \in users :
          u.id = last.args[1] /\ u.session_id = None /\ u.reset_token # None

(***************************************************************************)
(* The store called directly.  SpecStore serves one request at a time, as  *)
(* Spec does, and a request is a call of a DB method (add_user,            *)
(* update_user with a mapping of attributes) or one of the Auth operations *)
(* that write to a row.  last records a call of a DB method in full and of *)
(* an Auth operation its name and the exception raised.                    *)
(***************************************************************************)
\* Ids a caller may pass to update_user: those the table assigns, and the
\* ids it may ask to be written.
StoreIds == {int(i) : i \in 1 .. MaxStoreUsers}
NewIds == {int(i) : i \in 1 .. MaxStoreUsers + 1}

\* Values a caller may store in the nullable columns.
StoreTokens == {None, str("tok")}

\* A hash a caller of add_user computed beforehand, and the password
\* update_password is given.
StoreHashes == {hashpw(str("pw1"), 0)}
StorePasswords == {str("pw2")}

\* The mappings of attributes passed to update_user: a new id, both
\* nullable columns together, a column together with a name that is no
\* attribute of User, and such a name alone.
Attributes ==
    {("id" :> i) : i \in NewIds}
    \cup {("session_id" :> t) @@ ("reset_token" :> t) : t \in StoreTokens}
    \cup {("session_id" :> s) @@ ("no_such" :> None) : s \in StoreTokens}
    \cup {("no_such" :> None)}

StoreCall(op, args, ret, raised) ==
    [op |-> op, args |-> args, ret |-> ret, raised |-> raised,
     calls |-> <<op>>]

AddUser(email, hashed_password) ==
    LET added == add_user(users, email, hashed_password)
    IN  /\ Commit([users |-> added.users, uuids |-> uuids, salts |-> salts])
        /\ Cardinality(added.users) <= MaxStoreUsers
        /\ last' = StoreCall("add_user", <<email, hashed_password>>,
                             added.ret, added.raised)
        /\ UNCHANGED <<hist, pc, local>>

UpdateUser(user_id, kwargs) ==
    LET r == update_user(users, user_id, kwargs)
    IN  /\ users' = r.users
        /\ last' = StoreCall("update_user", <<user_id, kwargs>>, r.ret,
                             r.raised)
        /\ UNCHANGED <<uuids, salts, hist, pc, local>>

\* An Auth operation with outcome r, run from start to end.
AuthCall(op, r) ==
    /\ Commit(r)
    /\ Cardinality(r.users) <= MaxStoreUsers
    /\ r.uuids + r.salts <= MaxStoreRandom
    /\ last' = Call(op, <<>>, Outcome(World, None, r.raised, r.calls))
    /\ UNCHANGED <<hist, pc, local>>

NextStore ==
    \/ \E email \in Emails, hashed_password \in StoreHashes :
          AddUser(email, hashed_password)
    \/ \E user_id \in StoreIds, kwargs \in Attributes :
          UpdateUser(user_id, kwargs)
    \/ \E email \in Emails :
          AuthCall("create_session", create_session(World, email))
    \/ \E user_id \in {None} \cup StoreIds :
          AuthCall("destroy_session", destroy_session(World, user_id))
    \/ \E email \in Emails :
          AuthCall("get_reset_password_token",
                   get_reset_password_token(World, email))
    \/ \E reset_token \in Tokens \cup StoreTokens,
             password \in StorePasswords :
          AuthCall("update_password",
                   update_password(World, reset_token, password))

SpecStore == Init /\ [][NextStore]_vars

(***************************************************************************)
(* C12  User ids are unique and immutable (checked under SpecStore).  In   *)
(* every step the ids of the rows are pairwise different afterwards and    *)
(* every id a row had before the step is the id of a row after it: no      *)
(* add_user, no update_user and no Auth operation that writes changes the  *)
(* id of a user.                                                           *)
(***************************************************************************)
C12_Original ==
    [][/\ \A u \in users', v \in users' : u.id = v.id => u = v
       /\ {u.id : u \in users} \subseteq {u.id : u \in users'}]_vars

(***************************************************************************)
(* C16  update_user is all or nothing (checked under SpecStore).  In every *)
(* reachable state, for the id of a user: update_user with a mapping that  *)
(* holds a name that is no attribute of User raises ValueError and leaves  *)
(* the table as it is, whatever columns the mapping also names; with a     *)
(* mapping of columns only, a call that returns has written every value of *)
(* the mapping to that row in the one step, and nothing else.  The same    *)
(* holds of the update_user that ran last.                                 *)
(***************************************************************************)
C16_UpdateUserAllOrNothing ==
    /\ \A u \in users, kwargs \in Attributes :
          LET r == update_user(users, u.id, kwargs)
          IN  IF DOMAIN kwargs \subseteq UserColumns
              THEN r.raised = NoExc =>
                      r.users = (users \ {u}) \cup {UpdatedRow(u, kwargs)}
              ELSE r.raised = ValueError /\ r.users = users
    /\ \A u \in users, kwargs \in Attributes :
          DOMAIN kwargs \subseteq UserColumns =>
             \A key \in DOMAIN kwargs :
                UpdatedRow(u, kwargs)[key] = kwargs[key]
    /\ (last.op = "update_user"
          /\ ~(DOMAIN last.args[2] \subseteq UserColumns)) =>
          /\ last.raised # NoExc
          /\ (\E u \in users : u.id = last.args[1]) =>
                last.raised = ValueError
    /\ (last.op = "update_user" /\ last.raised = NoExc) =>
          \E u \in users :
             \A key \in DOMAIN last.args[2] : u[key] = last.args[2][key]

\* update_user was refused for a mapping of a column and a name that is no
\* attribute; the row does not hold the value given for the column.
C16_Witness ==
    /\ last.op = "update_user"
    /\ last.raised = ValueError
    /\ DOMAIN last.args[2] = {"session_id", "no_such"}
    /\ \E u \in users :
          u.id = last.args[1] /\ u.session_id # last.args[2]["session_id"]

(***************************************************************************)
(* C13  Concurrent create_session, last write wins (checked under          *)
(* SpecConc).  Whenever a process completes create_session, the token it   *)
(* returns differs from every token returned before, the user's            *)
(* session_id is that token, get_user_from_session_id of it returns the    *)
(* user, and every token returned for that user before resolves to nobody. *)
(* In particular when two calls for one user interleave (both lookups      *)
(* before the second write): the two tokens differ, the one written last   *)
(* is the session_id and resolves to the user, the other resolves to       *)
(* nobody.                                                                 *)
(***************************************************************************)
C13_LastWriteWins ==
    [][\A p \in Procs :
          (pc[p] = "update_user" /\ local[p].op = "create_session"
             /\ pc'[p] = "idle") =>
             LET id == local[p].user_id
                 tok == _generate_uuid(uuids)
             IN  /\ tok # None
                 /\ tok \notin {s.tok : s \in hist.sessions}
                 /\ [tok |-> tok, id |-> id] \in hist'.sessions
                 /\ RowById(users', id).session_id = tok
                 /\ IdOf(SessionUser(World', tok)) = id
                 /\ \A s \in hist.sessions :
                       s.id = id => SessionUser(World', s.tok) = None
                 /\ \A r \in hist'.races \ hist.races :
                       /\ r.first # r.second
                       /\ r.second = tok
                       /\ RowById(users', r.id).session_id = r.second
                       /\ IdOf(SessionUser(World', r.second)) = r.id
                       /\ SessionUser(World', r.first) = None]_vars

\* Two interleaved create_session calls for one user have both completed;
\* the token written last is the user's session_id.
C13_Witness ==
    /\ \A p \in Procs : pc[p] = "idle"
    /\ \E r \in hist.races :
          /\ RowById(users, r.id).session_id = r.second
          /\ SessionUser(World, r.first) = None

(***************************************************************************)
(* C14  The session axis and the reset axis are independent.               *)
(***************************************************************************)
\* The table vs is the table us with at most the columns cols of the row
\* id changed: the same ids, and every other value as before.
OnlyChanged(us, vs, id, cols) ==
    /\ Cardinality(vs) = Cardinality(us)
    /\ \A u \in us :
          \E v \in vs :
             /\ v.id = u.id
             /\ \A key \in UserColumns :
                   (u.id # id \/ key \notin cols) => v[key] = u[key]

\* C14: in every reachable state, for every input, create_session and
\* destroy_session change at most the session_id of the user they target;
\* get_reset_password_token changes at most that user's reset_token;
\* update_password changes at most the hashed_password and reset_token of
\* the user holding the token, so an active session_id stays;
\* register_user at most adds one row; valid_login and
\* get_user_from_session_id change nothing.
C14_FrameConditions ==
    /\ \A email \in Emails :
          /\ OnlyChanged(users, create_session(World, email).users,
                         IdOf(ByEmail(users, email)), {"session_id"})
          /\ OnlyChanged(users, get_reset_password_token(World, email).users,
                         IdOf(ByEmail(users, email)), {"reset_token"})
    /\ \A user_id \in UserIds :
          OnlyChanged(users, destroy_session(World, user_id).users,
                      user_id, {"session_id"})
    /\ \A reset_token \in Tokens, password \in Passwords :
          LET r == update_password(World, reset_token, password)
              target == first({u \in users : u.reset_token = reset_token})
          IN  /\ OnlyChanged(users, r.users, IdOf(target),
                             {"hashed_password", "reset_token"})
              /\ r.raised # NoExc => r.users = users
    /\ \A email \in Emails, password \in Passwords :
          /\ users \subseteq register_user(World, email, password).users
          /\ Cardinality(register_user(World, email, password).users)
                <= Cardinality(users) + 1
          /\ valid_login(World, email, password).users = users
    /\ \A session_id \in Tokens :
          get_user_from_session_id(World, session_id).users = users

\* update_password has just changed the password of a user whose session
\* is active, and the session is still in place.
C14_Witness ==
    /\ last.op = "update_password"
    /\ last.raised = NoExc
    /\ \E x \in hist.updates, s \in hist.sessions :
          /\ x.tok = last.args[1]
          /\ s.id = x.id
          /\ RowById(users, x.id).session_id = s.tok
          /\ RowById(users, x.id).reset_token = None
          /\ RowById(users, x.id).hashed_password = x.hash

(***************************************************************************)
(* C15  Emails are unique under Auth.  From the empty table, after any     *)
(* sequence of complete Auth operations, no two rows have the same email;  *)
(* and in every reachable state register_user(e, p) adds a row, with email *)
(* e, exactly when no row has email e: otherwise it raises ValueError and  *)
(* the table stays as it is.  The same holds of the register_user that ran *)
(* last.                                                                   *)
(***************************************************************************)
C15_EmailUnique ==
    /\ \A u \in users, v \in users : u.email = v.email => u = v
    /\ \A email \in Emails, password \in Passwords :
          LET r == register_user(World, email, password)
          IN  IF \E u \in users : u.email = email
              THEN r.raised = ValueError /\ r.users = users
              ELSE /\ r.raised = NoExc
                   /\ r.ret \notin users
                   /\ r.ret.email = email
                   /\ r.users = users \cup {r.ret}
    /\ last.op = "register_user" =>
          /\ Cardinality({u \in users : u.email = last.args[1]}) = 1
          /\ last.raised = NoExc =>
                (last.ret \in users /\ last.ret.email = last.args[1])

\* register_user has just added a second user, under the other email.
C15_Witness ==
    /\ last.op = "register_user"
    /\ last.raised = NoExc
    /\ Cardinality(users) = 2
    /\ \E u \in users : u.email # last.args[1]
    /\ \E u \in users : u.email = last.args[1] /\ u.id = int(2)

(***************************************************************************)
(* C17  Auth resolves the user before it updates.  An Auth operation that  *)
(* calls update_user has called find_user_by before, in that operation,    *)
(* and create_session, get_user_from_session_id, destroy_session and       *)
(* valid_login raise nothing, whatever their input: the operation that ran *)
(* last, if it is one of these, raised nothing, and if it called           *)
(* update_user, it called find_user_by first.                              *)
(***************************************************************************)
C17_Original ==
    /\ last.op \in {"create_session", "get_user_from_session_id",
                    "destroy_session", "valid_login"} =>
          last.raised = NoExc
    /\ \A i \in DOMAIN last.calls :
          last.calls[i] = "update_user" =>
             \E j \in 1 .. i - 1 : last.calls[j] = "find_user_by"

(***************************************************************************)
(* C18  How long an issued reset token stays valid (checked under          *)
(* SpecConc).                                                              *)
(***************************************************************************)
\* Process p completes update_password in this step.
UpdatePasswordBy(p) ==
    pc[p] = "update_user" /\ local[p].op = "update_password"
       /\ pc'[p] = "idle"

\* Process p completes get_reset_password_token for user id in this step.
ResetIssuedBy(p, id) ==
    pc[p] = "update_user" /\ local[p].op = "get_reset_password_token"
       /\ local[p].user_id = id /\ pc'[p] = "idle"

\* The token t of user u is used: an update_password with t completes.
TokenUsed(u) ==
    \E p \in Procs : UpdatePasswordBy(p) /\ local[p].args[1] = u.reset_token

\* The token of user u is replaced by the token of a later
\* get_reset_password_token for u.
TokenReplaced(u) ==
    \E p \in Procs :
       /\ ResetIssuedBy(p, u.id)
       /\ RowById(users', u.id).reset_token = _generate_uuid(uuids)

\* The token of user u is cleared by an update_password that found u by a
\* token u held before (issued for the same email, and earlier).
TokenClearedByEarlier(u) ==
    \E p \in Procs :
       /\ UpdatePasswordBy(p)
       /\ local[p].user_id = u.id
       /\ RowById(users', u.id).reset_token = None
       /\ \E r1 \in hist.resets, r2 \in hist.resets :
             /\ r1.tok = local[p].args[1]
             /\ r2.tok = u.reset_token
             /\ r1.email = r2.email
             /\ r1.n < r2.n

\* The reset_token of user u stops being the token it is.
TokenLost(u) ==
    u.reset_token # None /\ RowById(users', u.id).reset_token # u.reset_token

\* While t is the reset_token of a user, update_password(t, pw) succeeds
\* and writes to that user.
TokenValid(u) ==
    u.reset_token # None =>
       \A password \in Passwords :
          LET r == update_password(World, u.reset_token, password)
          IN  /\ r.raised = NoExc
              /\ checkpw(password, RowById(r.users, u.id).hashed_password)

\* C18 as stated: a token returned by get_reset_password_token stays the
\* user's reset_token, and update_password with it succeeds, until an
\* update_password with that token completes or a later
\* get_reset_password_token for the user replaces it.
C18_Original ==
    [][\A u \in users :
          /\ TokenValid(u)
          /\ TokenLost(u) => (TokenUsed(u) \/ TokenReplaced(u))]_vars

\* C18 amended: the same, until an update_password with that token
\* completes, a later get_reset_password_token for the user replaces it, or
\* an update_password that found the user by an earlier token of the
\* account, before this one was written, completes and sets reset_token to
\* None.
C18_TokenValidUntil ==
    [][\A u \in users :
          /\ TokenValid(u)
          /\ TokenLost(u) =>
                (TokenUsed(u) \/ TokenReplaced(u)
                   \/ TokenClearedByEarlier(u))]_vars

\* The token issued last for an email was never used, and is not the
\* user's reset_token any more: an update_password with an earlier token
\* has cleared it.
C18_Witness ==
    \E r \in hist.resets :
       /\ LatestReset(r)
       /\ r.tok \notin {x.tok : x \in hist.updates}
       /\ ByEmail(users, r.email).reset_token = None
       /\ \E x \in hist.updates : x.id = ByEmail(users, r.email).id

(***************************************************************************)
(* C19  A reset token is consumed once under interleaving (checked under   *)
(* SpecConc).  Of two update_password calls with the same token and        *)
(* different new passwords at most one succeeds: no token has changed a    *)
(* password to two different passwords.                                    *)
(***************************************************************************)
C19_Original ==
    \A x \in hist.updates, y \in hist.updates :
       x.tok = y.tok => x.new = y.new

(***************************************************************************)
(* C20  A None reset token authorizes no password change.  In every        *)
(* reachable state, also when users have reset_token None,                 *)
(* update_password(None, pw) raises ValueError after the one lookup and    *)
(* leaves every row, so every hashed_password, as it is, because           *)
(* find_user_by(reset_token=None) matches no row.  The same holds of the   *)
(* update_password that ran last.                                          *)
(***************************************************************************)
C20_NoneTokenRefused ==
    /\ find_user_by(users, [reset_token |-> None]).raised = NoResultFound
    /\ \A password \in Passwords :
          LET r == update_password(World, None, password)
          IN  /\ r.raised = ValueError
              /\ r.calls = <<"find_user_by">>
              /\ r.users = users
              /\ Hashes(r.users) = Hashes(users)
    /\ (last.op = "update_password" /\ last.args[1] = None) =>
          /\ last.raised = ValueError
          /\ last.calls = <<"find_user_by">>
          /\ \A u \in users :
                checkpw(PlainOf(hist, u.id).password, u.hashed_password)

\* update_password(None, pw) was refused while one user has no reset
\* pending and another has one; pw is not the password of the first.
C20_Witness ==
    /\ last.op = "update_password"
    /\ last.args[1] = None
    /\ last.raised = ValueError
    /\ \E u \in users, v \in users :
          /\ u.reset_token = None
          /\ ~checkpw(last.args[2], u.hashed_password)
          /\ v.reset_token # None

====
